---- MODULE Spec2Model ----
(***************************************************************************)
(* Model of the tweet scheduler in src/app.py: the tweets table, the       *)
(* /api/schedule handler (schedule_tweet), the listing (get_tweets), the  *)
(* /api/post-now handler (post_now), the media upload and the background  *)
(* thread check_and_post_tweets.                                           *)
(*                                                                         *)
(* Text is modelled by what the code reads of it.                          *)
(*  - A tweet's content is [pad, body]: body is the number of characters   *)
(*    between the first and the last non-blank character, pad the number   *)
(*    of blank characters around them. strip() removes the pad, len() is   *)
(*    pad + body.                                                          *)
(*  - A timestamp string is a sequence of integers: the first element is   *)
(*    the fixed-width, zero-padded "YYYY-MM-DDTHH:MM:SS" field read as a   *)
(*    number of time units (so that the order of the numbers is the order  *)
(*    of the texts), the others are the character codes of what follows    *)
(*    ("Z" = 90, "+" = 43, "-" = 45, "0".."9" = 48..57, ":" = 58).         *)
(*    One time unit is one hour, so that "+02:00" is two units; the units  *)
(*    are counted from an arbitrary hour, so a field may be negative.      *)
(*    The clock has the resolution of one unit.                            *)
(*  - Spec: the store is reliable (INSERT, SELECT, UPDATE and commit do   *)
(*    not raise), every Twitter call returns or raises, and one scheduler  *)
(*    thread runs. SpecNow adds the /api/post-now requests, SpecLive the   *)
(*    fairness of the thread and of the Twitter API (both with fewer       *)
(*    kinds of scheduling request), SpecFaults the statements that raise   *)
(*    (on SQLite or PostgreSQL) and the call that never returns, SpecTwo   *)
(*    a second process running the thread.                                 *)
(***************************************************************************)
EXTENDS Integers, Sequences, FiniteSets, TLC

\* ------------------------------------------------------------------ bounds
MaxClock == 2
MaxTweets == 2
MaxCreated == 2     \* returned create_tweet calls per row, when UPDATEs fail

\* ------------------------------------------------------- program constants
MAX_TWEET_LEN == 280
MAX_IMAGES == 4
LIST_LIMIT == 50
\* The server's local zone, as an offset from UTC in time units:
\* datetime.now() without a zone reads the local wall clock.
LOCAL_UTC_OFFSET == 0

VARIABLES
    tweets,          \* the tweets table: row id is the index (AUTOINCREMENT)
    clock,           \* the current instant (UTC), in time units
    client,          \* TRUE iff the Twitter client was initialised
    pc,              \* scheduler thread: "sleep" or "loop"
    now,             \* scheduler thread: local `now` of the current tick
    tweets_to_post,  \* scheduler thread: rows fetched by the current tick
    response,        \* the last HTTP response of /api/schedule
    invoked,         \* ids for which client.create_tweet was called
    created,         \* id -> number of create_tweet calls that returned
    failed,          \* ids whose latest create_tweet call raised
    call,            \* the last publish attempt: the attachments passed to
                     \* api_v1.media_upload and the arguments of
                     \* client.create_tweet
    USE_POSTGRES,    \* TRUE iff DATABASE_URL selects PostgreSQL
    in_failed_txn,   \* TRUE iff a statement of the tick's connection raised
                     \* and left its PostgreSQL transaction aborted
    peer_pc,         \* a second process running check_and_post_tweets:
    peer_now,        \* its position and its locals
    peer_tweets_to_post

vars == <<tweets, clock, client, pc, now, tweets_to_post, response,
          invoked, created, failed, call, USE_POSTGRES, in_failed_txn,
          peer_pc, peer_now, peer_tweets_to_post>>

\* The external calls, as the properties read them.
external == <<call>>

\* The connection of the tick in progress.
connection == <<USE_POSTGRES, in_failed_txn>>

\* The second scheduler process.
peer == <<peer_pc, peer_now, peer_tweets_to_post>>

\* What the request handlers and the clock leave alone.
elsewhere == <<connection, peer>>

\* ------------------------------------------------------------------- text
strip(content) == [pad |-> 0, body |-> content.body]

len(content) == content.pad + content.body

\* Lexicographic order of two texts, as TEXT columns compare.
RECURSIVE TextLE(_, _)
TextLE(a, b) ==
    IF a = <<>> THEN TRUE
    ELSE IF b = <<>> THEN FALSE
    ELSE IF Head(a) < Head(b) THEN TRUE
    ELSE IF Head(a) > Head(b) THEN FALSE
    ELSE TextLE(Tail(a), Tail(b))

\* scheduled_time.replace('Z', '+00:00') on the characters after the
\* date-time field.
RECURSIVE replaceZ(_)
replaceZ(chars) ==
    IF chars = <<>> THEN <<>>
    ELSE IF Head(chars) = 90
         THEN <<43, 48, 48, 58, 48, 48>> \o replaceZ(Tail(chars))
         ELSE <<Head(chars)>> \o replaceZ(Tail(chars))

IsDigit(ch) == ch \in 48..57

\* datetime.fromisoformat: the text after the date-time field is empty (a
\* naive datetime, tzinfo = {}) or "+HH:MM" / "-HH:MM" (tzinfo = {offset});
\* anything else raises ValueError (ok = FALSE).
fromisoformat(text) ==
    LET tz == Tail(text) IN
    IF Len(tz) = 0
    THEN [ok |-> TRUE, wall |-> text[1], tzinfo |-> {}]
    ELSE IF /\ Len(tz) = 6
            /\ tz[1] \in {43, 45}
            /\ IsDigit(tz[2]) /\ IsDigit(tz[3])
            /\ tz[4] = 58
            /\ tz[5] = 48 /\ tz[6] = 48
         THEN LET hours == (tz[2] - 48) * 10 + (tz[3] - 48)
              IN [ok |-> TRUE, wall |-> text[1],
                  tzinfo |-> {IF tz[1] = 43 THEN hours ELSE 0 - hours}]
         ELSE [ok |-> FALSE, wall |-> 0, tzinfo |-> {}]

\* datetime.now(tz): the wall clock of zone tz, of the local zone if tz is
\* None.
datetime_now(tzinfo) ==
    IF tzinfo = {}
    THEN [ok |-> TRUE, wall |-> clock + LOCAL_UTC_OFFSET, tzinfo |-> {}]
    ELSE [ok |-> TRUE, wall |-> clock + (CHOOSE o \in tzinfo : TRUE),
          tzinfo |-> tzinfo]

utcoffset(dt) == CHOOSE o \in dt.tzinfo : TRUE

\* a < b on datetimes: naive ones compare their wall clocks, aware ones
\* their instants.
datetime_lt(a, b) ==
    IF a.tzinfo = {}
    THEN a.wall < b.wall
    ELSE a.wall - utcoffset(a) < b.wall - utcoffset(b)

\* datetime.now().isoformat()
isoformat(dt) == <<dt.wall>>

\* json.dumps / json.loads of a list of file names
json_dumps(list) == <<"[">> \o list \o <<"]">>

json_loads(text) == SubSeq(text, 2, Len(text) - 1)

NULL == <<>>

\* --------------------------------------------------------------- the store
\* An INSERT that stores the row as already posted.
INSERT_Posted(table, content, scheduled_time, image_paths_json) ==
    Append(table, [content |-> content,
                   scheduled_time |-> scheduled_time,
                   posted |-> 1,
                   image_paths |-> image_paths_json])

INSERT(table, content, scheduled_time, image_paths_json) ==
    Append(table, [content |-> content,
                   scheduled_time |-> scheduled_time,
                   posted |-> 0,
                   image_paths |-> image_paths_json])

\* An UPDATE that matches no row.
UPDATE_posted_NoRow(table, tweet_id) == table

\* An UPDATE that flips the column instead of setting it.
UPDATE_posted_Flips(table, tweet_id) ==
    [table EXCEPT ![tweet_id].posted = 1 - @]

\* UPDATE tweets SET posted = 1 WHERE id = ?
UPDATE_posted(table, tweet_id) == [table EXCEPT ![tweet_id].posted = 1]

\* A WHERE clause without the posted = 0 test.
IsDue_AnyState(row, nowText) == TextLE(row.scheduled_time, nowText)

\* A WHERE clause that matches a row only at its very time.
IsDue_OnlyOnTime(row, nowText) ==
    row.posted = 0 /\ row.scheduled_time = nowText

\* WHERE posted = 0 AND scheduled_time <= now
IsDue(row, nowText) == row.posted = 0 /\ TextLE(row.scheduled_time, nowText)

RECURSIVE SelectFrom(_, _, _)
SelectFrom(table, nowText, i) ==
    IF i > Len(table) THEN <<>>
    ELSE (IF IsDue(table[i], nowText)
          THEN <<[id |-> i, content |-> table[i].content,
                  image_paths_json |-> table[i].image_paths]>>
          ELSE <<>>) \o SelectFrom(table, nowText, i + 1)

SELECT_due(table, nowText) == SelectFrom(table, nowText, 1)

\* ----------------------------------------------------------------- inputs
Img(n) == [i \in 1..n |-> "img"]

\* Empty, blank, a full-length tweet, a padded tweet of full length, a
\* full-length tweet padded with one more blank, and a tweet one character
\* too long.
Contents ==
    {[pad |-> 0, body |-> 0], [pad |-> 1, body |-> 0],
     [pad |-> 0, body |-> MAX_TWEET_LEN],
     [pad |-> 1, body |-> MAX_TWEET_LEN - 1],
     [pad |-> 1, body |-> MAX_TWEET_LEN],
     [pad |-> 0, body |-> MAX_TWEET_LEN + 1]}

SuffixZ == <<90>>
SuffixPlus2 == <<43, 48, 50, 58, 48, 48>>
SuffixMinus2 == <<45, 48, 50, 58, 48, 48>>
SuffixBad == <<88>>

\* The instants (UTC) that requests ask for. The clock runs from before them
\* to after them, so each is in the future, now, and in the past in turn.
Instants == {1}

\* Each instant written naive (local time), with "Z", with "+02:00" and with
\* "-02:00"; the empty string; a malformed timestamp.
Times ==
    {<<>>} \cup {<<t>> \o SuffixBad : t \in Instants}
    \cup {<<t + LOCAL_UTC_OFFSET>> : t \in Instants}
    \cup {<<t>> \o SuffixZ : t \in Instants}
    \cup {<<t + 2>> \o SuffixPlus2 : t \in Instants}
    \cup {<<t - 2>> \o SuffixMinus2 : t \in Instants}

ImageLists == {Img(n) : n \in {0, MAX_IMAGES, MAX_IMAGES + 1}}

BaseContent == [pad |-> 0, body |-> MAX_TWEET_LEN]
BaseTimes == {<<t + LOCAL_UTC_OFFSET>> : t \in Instants}

\* The requests tried: each field varies over its whole set while the others
\* hold a plain valid value.
Requests ==
    {[content |-> c, scheduled_time |-> t, image_paths |-> <<>>] :
        c \in Contents, t \in BaseTimes}
    \cup {[content |-> BaseContent, scheduled_time |-> t, image_paths |-> <<>>] :
        t \in Times}
    \cup {[content |-> BaseContent, scheduled_time |-> t, image_paths |-> l] :
        t \in BaseTimes, l \in ImageLists}

\* ---------------------------------------------------------- /api/schedule
Error(msg) == [status |-> 400, error |-> msg]

Success(tweet_id) == [status |-> 200, id |-> tweet_id]

InThePast(scheduled_datetime) ==
    datetime_lt(scheduled_datetime, datetime_now(scheduled_datetime.tzinfo))

\* An off-by-one limit on the number of images.
TooManyImages_OffByOne(image_paths) == Len(image_paths) > MAX_IMAGES + 1

TooManyImages(image_paths) == Len(image_paths) > MAX_IMAGES

schedule_tweet(req) ==
    LET content == strip(req.content)
        scheduled_time == req.scheduled_time
        image_paths == req.image_paths
        scheduled_datetime == fromisoformat(<<scheduled_time[1]>> \o
                                            replaceZ(Tail(scheduled_time)))
        image_paths_json == IF image_paths # <<>> THEN json_dumps(image_paths)
                            ELSE NULL
    IN
    /\ IF len(content) = 0
       THEN /\ response' = Error("Tweet content is required")
            /\ tweets' = tweets
       ELSE IF scheduled_time = <<>>
       THEN /\ response' = Error("Scheduled time is required")
            /\ tweets' = tweets
       ELSE IF TooManyImages(image_paths)
       THEN /\ response' = Error("Maximum 4 images allowed")
            /\ tweets' = tweets
       ELSE IF ~scheduled_datetime.ok
       THEN /\ response' = Error("ValueError")
            /\ tweets' = tweets
       ELSE IF InThePast(scheduled_datetime)
       THEN /\ response' = Error("Scheduled time must be in the future")
            /\ tweets' = tweets
       ELSE /\ Len(tweets) < MaxTweets
            /\ tweets' = INSERT(tweets, content, scheduled_time, image_paths_json)
            /\ response' = Success(Len(tweets'))
    /\ created' = [id \in DOMAIN tweets' |->
                      IF id \in DOMAIN created THEN created[id] ELSE 0]
    /\ UNCHANGED <<clock, client, pc, now, tweets_to_post, invoked, failed>>
    /\ UNCHANGED external
    /\ UNCHANGED elsewhere

ScheduleTweet == \E req \in Requests : schedule_tweet(req)

\* ------------------------------------------------ check_and_post_tweets
\* One pass of the while loop up to the fetchall.
TickStart ==
    /\ pc = "sleep"
    /\ now' = isoformat(datetime_now({}))
    /\ tweets_to_post' = SELECT_due(tweets, now')
    /\ pc' = "loop"
    /\ UNCHANGED <<tweets, clock, client, response, invoked, created, failed>>
    /\ UNCHANGED external
    /\ UNCHANGED elsewhere

\* A skip that marks the post as posted although nothing was sent.
NoClient_MarksPosted ==
    /\ pc = "loop" /\ tweets_to_post # <<>>
    /\ ~client
    /\ tweets' = UPDATE_posted(tweets, Head(tweets_to_post).id)
    /\ tweets_to_post' = Tail(tweets_to_post)
    /\ UNCHANGED <<clock, client, pc, now, response, invoked, created, failed>>
    /\ UNCHANGED external
    /\ UNCHANGED elsewhere

\* "Twitter client not initialized. Skipping tweet posting."
NoClient ==
    /\ pc = "loop" /\ tweets_to_post # <<>>
    /\ ~client
    /\ tweets_to_post' = Tail(tweets_to_post)
    /\ UNCHANGED <<tweets, clock, client, pc, now, response, invoked, created, failed>>
    /\ UNCHANGED external
    /\ UNCHANGED elsewhere

FitsTweet(content) == len(content) <= MAX_TWEET_LEN

\* c.execute on the tick's connection can go through: on PostgreSQL every
\* statement raises once a statement of the transaction has raised, until a
\* rollback, and the loop never rolls back.
StoreAccepts == ~(USE_POSTGRES /\ in_failed_txn)

\* ------------------------------------------------------ the Twitter API
\* api_v1 is built right after client, from the same credentials.
api_v1 == client

\* What happens to one attachment: its file is missing, media_upload
\* raises, or media_upload returns a media id.
Fates == {"missing", "raises", "ok"}

\* The fates tried for a list of n attachments: the same fate for all, and
\* a mix (ok, missing, raises, ok, ...).
Outcomes(n) ==
    {[i \in 1..n |-> f] : f \in Fates}
    \cup {[i \in 1..n |-> IF i % 4 = 2 THEN "missing"
                          ELSE IF i % 4 = 3 THEN "raises" ELSE "ok"]}

\* The media id that media_upload returns for the i-th attachment.
media_id(i) == i

\* An upload loop that stops at the first attachment it cannot upload.
RECURSIVE UploadFrom_StopsAtFailure(_, _, _)
UploadFrom_StopsAtFailure(image_paths, fate, i) ==
    IF i > Len(image_paths) \/ fate[i] # "ok" THEN <<>>
    ELSE <<media_id(i)>> \o UploadFrom_StopsAtFailure(image_paths, fate, i + 1)

\* for image_filename in image_paths: try: ... except: continue
RECURSIVE UploadFrom(_, _, _)
UploadFrom(image_paths, fate, i) ==
    IF i > Len(image_paths) THEN <<>>
    ELSE (IF fate[i] = "ok" THEN <<media_id(i)>> ELSE <<>>)
         \o UploadFrom(image_paths, fate, i + 1)

upload_media_to_twitter(image_paths, fate) ==
    IF ~api_v1 \/ image_paths = <<>> THEN <<>>
    ELSE UploadFrom(image_paths, fate, 1)

\* The attachments (by position) that upload_media_to_twitter passes to
\* api_v1.media_upload: those whose file exists.
RECURSIVE TriedFrom(_, _, _)
TriedFrom(image_paths, fate, i) ==
    IF i > Len(image_paths) THEN <<>>
    ELSE (IF fate[i] # "missing" THEN <<i>> ELSE <<>>)
         \o TriedFrom(image_paths, fate, i + 1)

media_upload_calls(image_paths, fate) ==
    IF ~api_v1 \/ image_paths = <<>> THEN <<>>
    ELSE TriedFrom(image_paths, fate, 1)

\* if media_ids: create_tweet(text=content, media_ids=media_ids)
\* else: create_tweet(text=content)
create_tweet_args(content, media_ids) ==
    IF media_ids # <<>>
    THEN [text |-> content, media_ids |-> media_ids]
    ELSE [text |-> content]

NoCall == [none |-> TRUE]

\* The image paths a fetched row carries.
image_paths_of(tw) ==
    IF tw.image_paths_json # NULL THEN json_loads(tw.image_paths_json) ELSE <<>>

\* The for loop body up to and including the create_tweet call, the fates
\* of the attachments being given.
publish(tw, fate) ==
    LET image_paths == image_paths_of(tw)
        media_ids == IF image_paths # <<>>
                     THEN upload_media_to_twitter(image_paths, fate)
                     ELSE <<>>
    IN /\ call' = [uploads |-> media_upload_calls(image_paths, fate),
                   args |-> create_tweet_args(tw.content, media_ids)]
       /\ invoked' = invoked \cup {tw.id}

\* create_tweet returned: mark as posted and commit.
post_tweet(fate) ==
    /\ pc = "loop" /\ tweets_to_post # <<>>
    /\ client
    /\ StoreAccepts
    /\ LET tw == Head(tweets_to_post) IN
       /\ FitsTweet(tw.content)
       /\ publish(tw, fate)
       /\ created' = [created EXCEPT ![tw.id] = @ + 1]
       /\ failed' = failed \ {tw.id}
       /\ tweets' = UPDATE_posted(tweets, tw.id)
    /\ tweets_to_post' = Tail(tweets_to_post)
    /\ UNCHANGED <<clock, client, pc, now, response>>
    /\ UNCHANGED elsewhere

PostTweet ==
    /\ tweets_to_post # <<>>
    /\ \E fate \in Outcomes(Len(image_paths_of(Head(tweets_to_post)))) :
          post_tweet(fate)

\* A handler that gives up on the tweet when create_tweet raises.
OnCreateTweetError_GivesUp(table, tweet_id) ==
    [table EXCEPT ![tweet_id].posted = 1]

\* except Exception as e: print(...) -- the row is not touched.
OnCreateTweetError(table, tweet_id) == table

\* create_tweet raised: "Error posting tweet".
post_tweet_error(fate) ==
    /\ pc = "loop" /\ tweets_to_post # <<>>
    /\ client
    /\ LET tw == Head(tweets_to_post) IN
       /\ FitsTweet(tw.content)
       /\ publish(tw, fate)
       /\ failed' = failed \cup {tw.id}
       /\ tweets' = OnCreateTweetError(tweets, tw.id)
    /\ tweets_to_post' = Tail(tweets_to_post)
    /\ UNCHANGED <<clock, client, pc, now, response, created>>
    /\ UNCHANGED elsewhere

PostTweetError ==
    /\ tweets_to_post # <<>>
    /\ \E fate \in Outcomes(Len(image_paths_of(Head(tweets_to_post)))) :
          post_tweet_error(fate)

\* "Skipping tweet: exceeds 280 characters".
SkipOversized ==
    /\ pc = "loop" /\ tweets_to_post # <<>>
    /\ client
    /\ StoreAccepts
    /\ LET tw == Head(tweets_to_post) IN
       /\ ~FitsTweet(tw.content)
       /\ tweets' = UPDATE_posted(tweets, tw.id)
    /\ tweets_to_post' = Tail(tweets_to_post)
    /\ UNCHANGED <<clock, client, pc, now, response, invoked, created, failed>>
    /\ UNCHANGED external
    /\ UNCHANGED elsewhere

\* The for loop is over: close the connection and sleep.
TickEnd ==
    /\ pc = "loop" /\ tweets_to_post = <<>>
    /\ pc' = "sleep"
    /\ in_failed_txn' = FALSE
    /\ UNCHANGED <<tweets, clock, client, now, tweets_to_post, response,
                   invoked, created, failed>>
    /\ UNCHANGED external
    /\ UNCHANGED <<USE_POSTGRES, peer>>

\* Time passes.
Advance ==
    /\ clock < MaxClock
    /\ clock' = clock + 1
    /\ UNCHANGED <<tweets, client, pc, now, tweets_to_post, response,
                   invoked, created, failed>>
    /\ UNCHANGED external
    /\ UNCHANGED elsewhere

\* ---------------------------------------------- failures of the tick
\* get_db_connection or the SELECT raised: the outer except prints and the
\* loop sleeps. now is assigned only when the connection was opened.
TickStartFails ==
    /\ pc = "sleep"
    /\ now' \in {now, isoformat(datetime_now({}))}
    /\ UNCHANGED <<tweets, clock, client, pc, tweets_to_post, response,
                   invoked, created, failed>>
    /\ UNCHANGED external
    /\ UNCHANGED elsewhere

\* create_tweet returned and the UPDATE or the commit raised: the inner
\* except prints and the loop moves on; the row keeps posted = 0.
post_tweet_mark_fails(fate) ==
    /\ pc = "loop" /\ tweets_to_post # <<>>
    /\ client
    /\ LET tw == Head(tweets_to_post) IN
       /\ FitsTweet(tw.content)
       /\ created[tw.id] < MaxCreated
       /\ publish(tw, fate)
       /\ created' = [created EXCEPT ![tw.id] = @ + 1]
       /\ failed' = failed \ {tw.id}
    /\ in_failed_txn' = USE_POSTGRES
    /\ tweets_to_post' = Tail(tweets_to_post)
    /\ UNCHANGED <<tweets, clock, client, pc, now, response>>
    /\ UNCHANGED <<USE_POSTGRES, peer>>

PostTweetMarkFails ==
    /\ tweets_to_post # <<>>
    /\ \E fate \in Outcomes(Len(image_paths_of(Head(tweets_to_post)))) :
          post_tweet_mark_fails(fate)

\* The UPDATE or the commit of the skip branch raised.
SkipOversizedMarkFails ==
    /\ pc = "loop" /\ tweets_to_post # <<>>
    /\ client
    /\ ~FitsTweet(Head(tweets_to_post).content)
    /\ in_failed_txn' = USE_POSTGRES
    /\ tweets_to_post' = Tail(tweets_to_post)
    /\ UNCHANGED <<tweets, clock, client, pc, now, response,
                   invoked, created, failed>>
    /\ UNCHANGED external
    /\ UNCHANGED <<USE_POSTGRES, peer>>

\* client.create_tweet never returns: the client is built without a
\* timeout, and the thread waits in the call.
create_tweet_hangs(fate) ==
    /\ pc = "loop" /\ tweets_to_post # <<>>
    /\ client
    /\ LET tw == Head(tweets_to_post) IN
       /\ FitsTweet(tw.content)
       /\ publish(tw, fate)
    /\ pc' = "blocked"
    /\ UNCHANGED <<tweets, clock, client, now, tweets_to_post, response,
                   created, failed>>
    /\ UNCHANGED elsewhere

CreateTweetHangs ==
    /\ tweets_to_post # <<>>
    /\ \E fate \in Outcomes(Len(image_paths_of(Head(tweets_to_post)))) :
          create_tweet_hangs(fate)

\* ------------------------------------------- a second scheduler process
\* The module starts its scheduler thread when it is loaded, so every
\* process that loads it (a second worker, the reloader's child) runs
\* check_and_post_tweets on the same table. The peer's steps are the steps
\* above on its own locals.
PeerTickStart ==
    /\ peer_pc = "sleep"
    /\ peer_now' = isoformat(datetime_now({}))
    /\ peer_tweets_to_post' = SELECT_due(tweets, peer_now')
    /\ peer_pc' = "loop"
    /\ UNCHANGED <<tweets, clock, client, response, invoked, created, failed>>
    /\ UNCHANGED <<pc, now, tweets_to_post>>
    /\ UNCHANGED external
    /\ UNCHANGED connection

PeerNoClient ==
    /\ peer_pc = "loop" /\ peer_tweets_to_post # <<>>
    /\ ~client
    /\ peer_tweets_to_post' = Tail(peer_tweets_to_post)
    /\ UNCHANGED <<tweets, clock, client, response, invoked, created, failed>>
    /\ UNCHANGED <<pc, now, tweets_to_post, peer_pc, peer_now>>
    /\ UNCHANGED external
    /\ UNCHANGED connection

peer_post_tweet(fate) ==
    /\ peer_pc = "loop" /\ peer_tweets_to_post # <<>>
    /\ client
    /\ LET tw == Head(peer_tweets_to_post) IN
       /\ FitsTweet(tw.content)
       /\ publish(tw, fate)
       /\ created' = [created EXCEPT ![tw.id] = @ + 1]
       /\ failed' = failed \ {tw.id}
       /\ tweets' = UPDATE_posted(tweets, tw.id)
    /\ peer_tweets_to_post' = Tail(peer_tweets_to_post)
    /\ UNCHANGED <<clock, client, response>>
    /\ UNCHANGED <<pc, now, tweets_to_post, peer_pc, peer_now>>
    /\ UNCHANGED connection

PeerPostTweet ==
    /\ peer_tweets_to_post # <<>>
    /\ \E fate \in Outcomes(Len(image_paths_of(Head(peer_tweets_to_post)))) :
          peer_post_tweet(fate)

peer_post_tweet_error(fate) ==
    /\ peer_pc = "loop" /\ peer_tweets_to_post # <<>>
    /\ client
    /\ LET tw == Head(peer_tweets_to_post) IN
       /\ FitsTweet(tw.content)
       /\ publish(tw, fate)
       /\ failed' = failed \cup {tw.id}
       /\ tweets' = OnCreateTweetError(tweets, tw.id)
    /\ peer_tweets_to_post' = Tail(peer_tweets_to_post)
    /\ UNCHANGED <<clock, client, response, created>>
    /\ UNCHANGED <<pc, now, tweets_to_post, peer_pc, peer_now>>
    /\ UNCHANGED connection

PeerPostTweetError ==
    /\ peer_tweets_to_post # <<>>
    /\ \E fate \in Outcomes(Len(image_paths_of(Head(peer_tweets_to_post)))) :
          peer_post_tweet_error(fate)

PeerSkipOversized ==
    /\ peer_pc = "loop" /\ peer_tweets_to_post # <<>>
    /\ client
    /\ LET tw == Head(peer_tweets_to_post) IN
       /\ ~FitsTweet(tw.content)
       /\ tweets' = UPDATE_posted(tweets, tw.id)
    /\ peer_tweets_to_post' = Tail(peer_tweets_to_post)
    /\ UNCHANGED <<clock, client, response, invoked, created, failed>>
    /\ UNCHANGED <<pc, now, tweets_to_post, peer_pc, peer_now>>
    /\ UNCHANGED external
    /\ UNCHANGED connection

PeerTickEnd ==
    /\ peer_pc = "loop" /\ peer_tweets_to_post = <<>>
    /\ peer_pc' = "sleep"
    /\ UNCHANGED <<tweets, clock, client, response, invoked, created, failed>>
    /\ UNCHANGED <<pc, now, tweets_to_post, peer_now, peer_tweets_to_post>>
    /\ UNCHANGED external
    /\ UNCHANGED connection

\* ------------------------------------------------------------ /api/tweets
\* ORDER BY scheduled_time DESC LIMIT 50
RECURSIVE InsertDesc(_, _)
InsertDesc(list, item) ==
    IF list = <<>> THEN <<item>>
    ELSE IF TextLE(Head(list).scheduled_time, item.scheduled_time)
         THEN <<item>> \o list
         ELSE <<Head(list)>> \o InsertDesc(Tail(list), item)

RECURSIVE OrderDesc(_, _)
OrderDesc(table, i) ==
    IF i = 0 THEN <<>>
    ELSE InsertDesc(OrderDesc(table, i - 1),
                    [id |-> i,
                     content |-> table[i].content,
                     scheduled_time |-> table[i].scheduled_time,
                     posted |-> table[i].posted = 1,
                     image_paths |-> IF table[i].image_paths # NULL
                                     THEN json_loads(table[i].image_paths)
                                     ELSE <<>>])

get_tweets ==
    LET all == OrderDesc(tweets, Len(tweets))
    IN SubSeq(all, 1, IF Len(all) < LIST_LIMIT THEN Len(all) ELSE LIST_LIMIT)

\* ---------------------------------------------------------- /api/post-now
NotConfigured == [status |-> 500, error |-> "Twitter API credentials not configured"]

Posted(remote_id) == [status |-> 200, tweet_id |-> remote_id]

\* The bodies tried: those of the scheduling requests, with and without
\* images.
NowRequests ==
    {[content |-> r.content, image_paths |-> r.image_paths] : r \in Requests}

\* A length limit that lets one character too many through.
TooLong_OffByOne(content) == len(content) > MAX_TWEET_LEN + 1

TooLong(content) == len(content) > MAX_TWEET_LEN

\* The handler, the fates of the attachments and whether create_tweet
\* returns (ok) or raises being given. It never touches the table.
post_now(req, fate, ok) ==
    LET content == strip(req.content)
        image_paths == req.image_paths
        media_ids == IF image_paths # <<>>
                     THEN upload_media_to_twitter(image_paths, fate)
                     ELSE <<>>
    IN
    /\ IF ~client
       THEN /\ response' = NotConfigured
            /\ UNCHANGED external
       ELSE IF len(content) = 0
       THEN /\ response' = Error("Tweet content is required")
            /\ UNCHANGED external
       ELSE IF TooLong(content)
       THEN /\ response' = Error("Tweet content exceeds 280 characters")
            /\ UNCHANGED external
       ELSE IF TooManyImages(image_paths)
       THEN /\ response' = Error("Maximum 4 images allowed")
            /\ UNCHANGED external
       ELSE /\ call' = [uploads |-> media_upload_calls(image_paths, fate),
                        args |-> create_tweet_args(content, media_ids)]
            /\ response' = IF ok THEN Posted("remote") ELSE Error("create_tweet")
    /\ UNCHANGED <<tweets, clock, client, pc, now, tweets_to_post,
                   invoked, created, failed>>
    /\ UNCHANGED elsewhere

PostNow ==
    \E req \in NowRequests :
        \E fate \in Outcomes(Len(req.image_paths)), ok \in BOOLEAN :
            post_now(req, fate, ok)

\* ---------------------------------------------------------- specification
\* One step of the scheduler thread.
SchedulerStep ==
    TickStart \/ NoClient \/ PostTweet \/ PostTweetError \/ SkipOversized
    \/ TickEnd

Init ==
    /\ tweets = <<>>
    /\ clock = 0
    /\ client \in BOOLEAN
    /\ pc = "sleep"
    /\ now = <<>>
    /\ tweets_to_post = <<>>
    /\ response = [status |-> 0]
    /\ invoked = {}
    /\ created = <<>>
    /\ failed = {}
    /\ call = NoCall
    /\ USE_POSTGRES = FALSE
    /\ in_failed_txn = FALSE
    /\ peer_pc = "sleep"
    /\ peer_now = <<>>
    /\ peer_tweets_to_post = <<>>

Next ==
    \/ ScheduleTweet
    \/ TickStart
    \/ NoClient
    \/ PostTweet
    \/ PostTweetError
    \/ SkipOversized
    \/ TickEnd
    \/ Advance

Spec == Init /\ [][Next]_vars

\* The same program under the conditions of delivery: the thread keeps
\* taking its steps, time passes, and create_tweet does not raise for ever
\* (a call that can be made again and again at last returns).
\* The scheduling requests are those without images, with a plain local
\* timestamp or a "Z" timestamp.
LiveRequests ==
    {req \in Requests :
        /\ req.image_paths = <<>>
        /\ req.scheduled_time \in
              BaseTimes \cup {<<t>> \o SuffixZ : t \in Instants}}

ScheduleTweetLive == \E req \in LiveRequests : schedule_tweet(req)

NextLive ==
    \/ ScheduleTweetLive
    \/ TickStart
    \/ NoClient
    \/ PostTweet
    \/ PostTweetError
    \/ SkipOversized
    \/ TickEnd
    \/ Advance

SpecLive ==
    /\ Init /\ [][NextLive]_vars
    /\ WF_vars(SchedulerStep)
    /\ WF_vars(Advance)
    /\ SF_vars(PostTweet)

\* The same program with the /api/post-now endpoint in use. What is
\* published does not depend on how a timestamp is written, so the
\* scheduling requests here all carry a plain local timestamp.
PlainRequests == {req \in Requests : req.scheduled_time \in BaseTimes}

ScheduleTweetPlain == \E req \in PlainRequests : schedule_tweet(req)

NextNow ==
    \/ ScheduleTweetPlain
    \/ TickStart
    \/ NoClient
    \/ PostTweet
    \/ PostTweetError
    \/ SkipOversized
    \/ TickEnd
    \/ Advance
    \/ PostNow

SpecNow == Init /\ [][NextNow]_vars

\* The same program on either backend, with statements of the tick that
\* raise and a create_tweet call that may never return.
InitFaults ==
    /\ tweets = <<>>
    /\ clock = 0
    /\ client \in BOOLEAN
    /\ pc = "sleep"
    /\ now = <<>>
    /\ tweets_to_post = <<>>
    /\ response = [status |-> 0]
    /\ invoked = {}
    /\ created = <<>>
    /\ failed = {}
    /\ call = NoCall
    /\ USE_POSTGRES \in BOOLEAN
    /\ in_failed_txn = FALSE
    /\ peer_pc = "sleep"
    /\ peer_now = <<>>
    /\ peer_tweets_to_post = <<>>

NextFaults ==
    \/ Next
    \/ TickStartFails
    \/ PostTweetMarkFails
    \/ SkipOversizedMarkFails
    \/ CreateTweetHangs

SpecFaults == InitFaults /\ [][NextFaults]_vars

\* One step of the scheduler thread, failures included.
ThreadStep ==
    \/ TickStart \/ NoClient \/ PostTweet \/ PostTweetError \/ SkipOversized
    \/ TickEnd
    \/ TickStartFails \/ PostTweetMarkFails \/ SkipOversizedMarkFails
    \/ CreateTweetHangs

\* The thread is a daemon thread of a running process: whenever it has a
\* step to take (its sleep is over, a call has returned or raised) it
\* takes one.
SpecFaultsFair == SpecFaults /\ WF_vars(ThreadStep)

\* The same program loaded by two processes.
NextTwo ==
    \/ Next
    \/ PeerTickStart
    \/ PeerNoClient
    \/ PeerPostTweet
    \/ PeerPostTweetError
    \/ PeerSkipOversized
    \/ PeerTickEnd

SpecTwo == Init /\ [][NextTwo]_vars

\* ------------------------------------------------------------- properties
\* The state of a post as the table records it: the posted column is all
\* there is, so a row is Pending (0) or Posted (1).
State(row) == IF row.posted = 0 THEN "Pending" ELSE "Posted"

Ids(rows) == {rows[i].id : i \in DOMAIN rows}

\* The instant (UTC) a timestamp text denotes.
ScheduledInstant(text) ==
    LET dt == fromisoformat(<<text[1]>> \o replaceZ(Tail(text)))
    IN IF dt.tzinfo = {} THEN dt.wall - LOCAL_UTC_OFFSET
       ELSE dt.wall - utcoffset(dt)

\* A step of the for loop that handles the first of the fetched rows.
HandlesHead == pc = "loop" /\ tweets_to_post # <<>>
               /\ tweets_to_post' = Tail(tweets_to_post)

\* The step that starts a tick: the SELECT of the due rows.
StartsTick == pc = "sleep" /\ pc' = "loop"

\* C1: a post whose create_tweet call raised is still Pending afterwards (so
\* also when the tick ends), and every later tick selects it as due again,
\* however many times it has failed before.
C1_FailedPostIsRetried ==
    [][/\ \A id \in failed' : State(tweets'[id]) = "Pending"
       /\ StartsTick => \A id \in failed : id \in Ids(tweets_to_post')]_vars

\* A post that failed in an earlier tick has been selected again.
C1_Witness ==
    /\ pc = "loop"
    /\ \E id \in failed : id \in Ids(tweets_to_post)

\* C2: when a tick has ended, every post of at most 280 characters for which
\* create_tweet returned is Posted.
C2_PublishedIsPosted ==
    pc = "sleep" =>
        \A id \in DOMAIN tweets :
            (created[id] > 0 /\ len(tweets[id].content) <= MAX_TWEET_LEN)
                => State(tweets[id]) = "Posted"

C2_Witness ==
    /\ pc = "sleep"
    /\ \E id \in DOMAIN tweets :
          /\ created[id] > 0
          /\ len(tweets[id].content) = MAX_TWEET_LEN
          /\ State(tweets[id]) = "Posted"

\* C3: a tick that handles a due post of more than 280 characters leaves it
\* Failed and never calls create_tweet for it. (Stated for a configured
\* client; without one the tick leaves every post Pending.)
C3_OversizedIsFailed ==
    [][HandlesHead =>
          LET tw == Head(tweets_to_post) IN
          (client /\ len(tw.content) > MAX_TWEET_LEN)
              => /\ State(tweets'[tw.id]) = "Failed"
                 /\ tw.id \notin invoked']_vars

\* C4: the listing reports a post as posted only if a create_tweet call for
\* it returned.
C4_PostedOnlyIfPublished ==
    \A i \in DOMAIN get_tweets :
        get_tweets[i].posted => created[get_tweets[i].id] > 0

\* The instant (UTC) of the tick's `now`, read back from its text.
NowInstant == now[1] - LOCAL_UTC_OFFSET

\* C5: the rows a tick has fetched and not yet handled are all Pending and
\* none has a scheduled instant later than the tick's now.
C5_DueOnlyPendingAndElapsed ==
    pc = "loop" =>
        \A id \in Ids(tweets_to_post) :
            /\ State(tweets[id]) = "Pending"
            /\ ScheduledInstant(tweets[id].scheduled_time) <= NowInstant

\* C6: the SELECT of a tick fetches every Pending row whose scheduled
\* instant has elapsed. (Stated for the rows whose instant is strictly
\* before the tick's, a whole time unit or more: the claim also covers the
\* rows whose instant is the tick's own.)
C6_DueAllElapsed ==
    [][StartsTick =>
          \A id \in DOMAIN tweets :
              (/\ State(tweets[id]) = "Pending"
               /\ ScheduledInstant(tweets[id].scheduled_time) < clock)
                  => id \in Ids(tweets_to_post')]_vars

\* C7: a post that has left Pending keeps its state for ever, no row changes
\* in anything but its state, no tick selects a post that has left Pending,
\* and no fetched row waiting to be handled has left Pending.
C7_OneTransition ==
    [][/\ \A id \in DOMAIN tweets :
             /\ id \in DOMAIN tweets'
             /\ State(tweets[id]) # "Pending" => tweets'[id] = tweets[id]
             /\ [tweets'[id] EXCEPT !.posted = 0] = [tweets[id] EXCEPT !.posted = 0]
       /\ \A id \in Ids(tweets_to_post') : State(tweets'[id]) = "Pending"]_vars

\* A tick has fetched post 1 and not post 2, which is due by its time but
\* was posted by an earlier tick (rows are handled in id order).
C7_Witness ==
    /\ pc = "loop"
    /\ Ids(tweets_to_post) = {1}
    /\ Len(tweets) >= 2
    /\ State(tweets[2]) = "Posted"
    /\ TextLE(tweets[2].scheduled_time, now)

\* What a request asks for, read from the request alone.
AsksInstant(req) == ScheduledInstant(req.scheduled_time)

WellFormed(req) ==
    /\ req.scheduled_time # <<>>
    /\ fromisoformat(<<req.scheduled_time[1]>> \o
                     replaceZ(Tail(req.scheduled_time))).ok

\* The requests whose timestamp is present and parses.
WellFormedRequests == {req \in Requests : WellFormed(req)}

\* The steps of the handler that change the state change the response or
\* the table (a refusal that repeats the last response changes nothing).
Responds == response' # response \/ tweets' # tweets

\* C8: a submission whose scheduled instant is not strictly later than the
\* current instant gets a 400 response and leaves the table unchanged.
C8_NotFutureRejected ==
    [][Responds => \A req \in WellFormedRequests :
          (/\ AsksInstant(req) <= clock
           /\ schedule_tweet(req))
              => response'.status = 400 /\ tweets' = tweets]_vars

\* The attachment list of a stored row.
Attachments(row) ==
    IF row.image_paths # NULL THEN json_loads(row.image_paths) ELSE <<>>

\* C9: a submission with more than 4 attachments gets a 400 response and
\* leaves the table unchanged, and no row of the table has more than 4
\* attachments.
C9_AtMostFourImages ==
    [][/\ Responds => \A req \in Requests :
             (Len(req.image_paths) > 4 /\ schedule_tweet(req))
                 => response'.status = 400 /\ tweets' = tweets
       /\ \A id \in DOMAIN tweets' : Len(Attachments(tweets'[id])) <= 4]_vars

\* A submission with 5 attachments was refused, and a row with 4 is stored.
C9_Witness ==
    /\ response = Error("Maximum 4 images allowed")
    /\ \E id \in DOMAIN tweets : Len(Attachments(tweets[id])) = 4

\* The new row a submission promises: Pending, with the given content.
Accepted(req, content) ==
    /\ response' = Success(Len(tweets) + 1)
    /\ Len(tweets') = Len(tweets) + 1
    /\ SubSeq(tweets', 1, Len(tweets)) = tweets
    /\ LET row == tweets'[Len(tweets')] IN
       /\ State(row) = "Pending"
       /\ row.content = content
       /\ row.scheduled_time = req.scheduled_time
       /\ Attachments(row) = req.image_paths

\* C10 as claimed: every submission with content of 1 to 280 characters, a
\* scheduled instant strictly in the future and at most 4 attachments adds
\* one Pending row that holds the submitted content.
C10_ValidAccepted ==
    [][Responds => \A req \in WellFormedRequests :
          (/\ len(req.content) \in 1..MAX_TWEET_LEN
           /\ Len(req.image_paths) <= 4
           /\ AsksInstant(req) > clock
           /\ schedule_tweet(req))
              => Accepted(req, req.content)]_vars

\* C10 as amended: every submission whose content, with the blanks around
\* it removed, has 1 to 280 characters, with a scheduled instant strictly in
\* the future and at most 4 attachments, adds one Pending row that holds the
\* content without the blanks around it, the submitted timestamp and the
\* submitted attachments; the response carries the new id; the other rows
\* are unchanged.
C10_ValidAcceptedTrimmed ==
    [][Responds => \A req \in WellFormedRequests :
          (/\ req.content.body \in 1..MAX_TWEET_LEN
           /\ Len(req.image_paths) <= 4
           /\ AsksInstant(req) > clock
           /\ schedule_tweet(req))
              => Accepted(req, [pad |-> 0, body |-> req.content.body])]_vars

\* A padded submission was accepted: the new row holds 279 characters.
C10_Witness ==
    /\ response = Success(Len(tweets))
    /\ Len(tweets) > 0
    /\ tweets[Len(tweets)].content = [pad |-> 0, body |-> MAX_TWEET_LEN - 1]
    /\ State(tweets[Len(tweets)]) = "Pending"


\* C11: every client.create_tweet call, from the scheduler's tick or from
\* /api/post-now, carries a text of 1 to 280 characters.
C11_PublishedLength ==
    call # NoCall =>
        /\ len(call.args.text) >= 1
        /\ len(call.args.text) <= MAX_TWEET_LEN

\* A tick has published a row and /api/post-now has published a text of
\* full length.
C11_Witness ==
    /\ \E id \in DOMAIN created : created[id] > 0
    /\ response = Posted("remote")
    /\ call # NoCall /\ len(call.args.text) = MAX_TWEET_LEN

\* C12: without credentials no media upload and no create_tweet call is ever
\* made, every row stays Pending, the scheduler thread always has a next
\* step, and /api/post-now answers 500 "Twitter API credentials not
\* configured".
C12_NoCredentials ==
    /\ [](~client => ENABLED SchedulerStep)
    /\ [][~client =>
            /\ call' = NoCall
            /\ \A i \in DOMAIN tweets' : State(tweets'[i]) = "Pending"
            /\ (PostNow =>
                  /\ response'.status = 500
                  /\ response'.error = "Twitter API credentials not configured")
         ]_vars

\* Without credentials a tick that fetched two due rows has passed over the
\* first, which is still Pending, and /api/post-now has answered.
C12_Witness ==
    /\ ~client
    /\ response.status = 500
    /\ pc = "loop" /\ Len(tweets_to_post) = 1 /\ tweets_to_post[1].id = 2
    /\ IsDue(tweets[1], now)

\* The k-th smallest element of a set of numbers.
Kth(S, k) == CHOOSE i \in S : Cardinality({j \in S : j <= i}) = k

\* The members of a set of positions, in increasing order.
InOrder(S) == [k \in 1..Cardinality(S) |-> Kth(S, k)]

\* C13: when the tick publishes a row with attachments, media_upload is
\* called for every attachment whose file exists, create_tweet gets exactly
\* the media ids of the attachments whose upload returned, in order, and no
\* media_ids argument when there is none; whatever happens to the
\* attachments the create_tweet call is made, and when it returns the row
\* is Posted.
C13_MediaHandles ==
    [][(HandlesHead /\ client /\ image_paths_of(Head(tweets_to_post)) # <<>>) =>
        LET tw == Head(tweets_to_post)
            n == Len(image_paths_of(tw))
        IN \A fate \in Outcomes(n) :
            /\ FitsTweet(tw.content) => ENABLED post_tweet(fate)
            /\ post_tweet(fate) =>
                LET exists == {i \in 1..n : fate[i] # "missing"}
                    handles == {i \in 1..n : fate[i] = "ok"}
                    media_ids == [k \in 1..Cardinality(handles) |->
                                     media_id(InOrder(handles)[k])]
                IN /\ call'.uploads = InOrder(exists)
                   /\ call'.args.text = tw.content
                   /\ IF handles = {}
                      THEN "media_ids" \notin DOMAIN call'.args
                      ELSE /\ "media_ids" \in DOMAIN call'.args
                           /\ call'.args.media_ids = media_ids
                   /\ State(tweets'[tw.id]) = "Posted"
      ]_vars

\* A row with four attachments is Posted: the second file was missing and
\* the third upload raised, so create_tweet got the first and the fourth
\* media id.
C13_Witness ==
    /\ call # NoCall
    /\ call.uploads = <<1, 3, 4>>
    /\ "media_ids" \in DOMAIN call.args
    /\ call.args.media_ids = <<media_id(1), media_id(4)>>
    /\ \E i \in DOMAIN tweets :
          /\ State(tweets[i]) = "Posted" /\ created[i] = 1
          /\ Len(Attachments(tweets[i])) = MAX_IMAGES

\* C14: on every table the program reaches and for every row id, the
\* mark-posted UPDATE applied twice gives the table that one application
\* gives: the row is Posted and every other row is as it was. (The UPDATE
\* is a function of the table alone: it makes no create_tweet call.)
C14_MarkPostedIdempotent ==
    \A id \in DOMAIN tweets :
        LET once == UPDATE_posted(tweets, id)
            twice == UPDATE_posted(once, id)
        IN /\ twice = once
           /\ State(twice[id]) = "Posted"
           /\ \A other \in DOMAIN tweets \ {id} : twice[other] = tweets[other]

\* The tick has applied the UPDATE to one row while another is Pending.
C14_Witness ==
    /\ Len(tweets) = 2
    /\ State(tweets[1]) = "Posted" /\ created[1] = 1
    /\ State(tweets[2]) = "Pending"

\* C15: with two scheduler processes ticking on the same table, no post is
\* published by both: create_tweet returns at most once for each row (the
\* rows whose scheduled instant has come are enough to show it).
C15_NoDoublePosting ==
    \A id \in DOMAIN created :
        ScheduledInstant(tweets[id].scheduled_time) <= clock => created[id] <= 1

\* C16: whatever failed for the posts handled earlier in the tick, each
\* post still to be handled can be processed: if it fits, create_tweet can
\* be called for it and, the call returning, the row is marked Posted
\* (ticks over rows whose scheduled instant has come are enough to show it).
C16_FailureIsolated ==
    (pc = "loop" /\ tweets_to_post # <<>> /\ client
        /\ FitsTweet(Head(tweets_to_post).content)
        /\ \A i \in DOMAIN tweets :
              ScheduledInstant(tweets[i].scheduled_time) <= clock)
    => ENABLED PostTweet

\* C17: the scheduler loop never stops: whatever happened in a tick, the
\* loop comes back to its sleep and starts another tick, again and again.
C17_TicksForever == []<>(pc = "sleep")

\* C18: a create_tweet call that does not respond is abandoned: the thread
\* leaves the call, the row is still Pending, and the tick finishes.
C18_CallAbandoned ==
    (pc = "blocked") ~>
        (pc = "sleep" /\ \A i \in DOMAIN tweets :
                             created[i] = 0 => State(tweets[i]) = "Pending")

\* The timestamp texts that are at or before the text of now once the clock
\* has run its course.
WithinHorizon(text) ==
    TextLE(text, isoformat([ok |-> TRUE, wall |-> MaxClock + LOCAL_UTC_OFFSET,
                            tzinfo |-> {}]))

\* C19: with credentials, every row of at most 280 characters that the
\* table holds is eventually Posted, whether it was inserted during a tick
\* or between ticks and however often create_tweet raised for it before
\* (rows whose timestamp text comes due while the clock runs).
C19_EventuallyPosted ==
    \A id \in 1..MaxTweets :
        [](( /\ client
             /\ id \in DOMAIN tweets
             /\ FitsTweet(tweets[id].content)
             /\ WithinHorizon(tweets[id].scheduled_time))
           => <>(id \in DOMAIN tweets /\ State(tweets[id]) = "Posted"))

\* Two rows are Posted, one of them after a create_tweet call for it had
\* raised, the other with a "Z" timestamp that came due a tick late.
C19_Witness ==
    /\ Len(tweets) = 2
    /\ \A i \in DOMAIN tweets : State(tweets[i]) = "Posted" /\ created[i] = 1
    /\ \E i \in DOMAIN tweets : tweets[i].scheduled_time = <<1>> \o SuffixZ
    /\ clock = MaxClock

\* C20: with one scheduler process and a store whose statements go through,
\* create_tweet returns at most once for each row, however ticks and
\* submissions interleave.
C20_PublishedOnce ==
    \A id \in DOMAIN tweets : created[id] <= 1

\* Post 2 was published by an earlier tick; a later tick, at a later time,
\* has fetched post 1, whose earlier create_tweet call raised, and has left
\* post 2 alone.
C20_Witness ==
    /\ Len(tweets) = 2
    /\ created[2] = 1 /\ State(tweets[2]) = "Posted"
    /\ TextLE(tweets[2].scheduled_time, now)
    /\ pc = "loop" /\ Ids(tweets_to_post) = {1}
    /\ 1 \in failed
    /\ clock = MaxClock


============================================================================
